---------------------------- MODULE Spec2Model ----------------------------
(***************************************************************************)
(* Model of the question-extraction pipeline of PDF-Quizer                 *)
(* (src/pages/api/summarize.ts): the chunking of a large document, the     *)
(* resolution of each extracted record's answer to an option index, and    *)
(* the Fisher-Yates shuffle of the options.                                *)
(*                                                                         *)
(* JavaScript values are modelled as follows.                              *)
(*   - a string is the sequence of its UTF-16 code units (naturals);       *)
(*   - a number is stored in units of one half, so that the non-integer    *)
(*     1.5 is the value 3 and the integer k is the value 2*k;              *)
(*   - a field of a parsed JSON record is a tagged value                   *)
(*     [t |-> "undefined"], [t |-> "string", v |-> s],                      *)
(*     [t |-> "number", v |-> h] or [t |-> "array", v |-> <<s1, ...>>].      *)
(***************************************************************************)
EXTENDS Integers, Sequences, FiniteSets, TLC

VARIABLES
    pc,                 \* position of the invocation
    path,               \* "handler" (single request) or "processLargeDocument"
    extractedQuestions, \* the parsed array handed to .map (allQuestions on the chunked path)
    idx,                \* index of the record the map callback is at (0-based)
    correctIndex,       \* local of the map callback (a JS number, in halves)
    verified,           \* local of the map callback
    optionsWithIndex,   \* local of shuffleOptions
    i,                  \* loop variable of the Fisher-Yates loop
    choices,            \* the values j has taken in the current call of shuffleOptions
    shuffled,           \* what the last call of shuffleOptions returned
    newCorrectIndex,    \* what the last call of shuffleOptions returned
    processedQuestions, \* the array .map is building
    resStatus,          \* HTTP status of the response, 0 while none is sent
    resCount,           \* how many times res.status(..).json(..) has been called
    resError,           \* the error field of the response, "" when absent
    resQuestions,       \* the questions array of the response
    text,               \* the document text given to processLargeDocument
    chunks,             \* chunks built by processLargeDocument
    chunkStart,         \* loop variable i of the chunk-building loop
    method,             \* req.method
    textType,           \* typeof req.body.text; text holds its value when a string
    apiKey,             \* whether process.env.OPENROUTER_API_KEY is set
    chunkI,             \* loop variable i of the chunk-processing loop
    requests,           \* the fetches issued to the extraction service, in order
    contributed,        \* for each consumed reply, how many records it added, -1 when it held no array
    lastOutcome,        \* what the last reply of the service was
    fileExt,            \* extract handler: extension of the uploaded file, "none" without a file
    fileExists,         \* extract handler: whether the uploaded temporary file is on disk
    formError,          \* extract handler: whether form.parse reports an error
    file,               \* quiz page: the chosen file, "null" without one
    isProcessing,       \* quiz page: state of the same name
    questions,          \* quiz page: the loaded quiz
    error,              \* quiz page: the message of the error banner, "" without one
    currentQuestionIndex, \* quiz page: state of the same name
    userAnswers,        \* quiz page: the recorded answers
    selectedOption,     \* quiz page: the option picked for the current question, "" when none
    showResult,         \* quiz page: state of the same name
    quizCompleted,      \* quiz page: state of the same name
    inFlight            \* quiz page: the runs of handleGenerateQuiz that wait for a fetch

vars == <<pc, path, extractedQuestions, idx, correctIndex, verified,
          optionsWithIndex, i, choices, shuffled, newCorrectIndex, processedQuestions,
          resStatus, resCount, resError, resQuestions, text, chunks, chunkStart,
          method, textType, apiKey, chunkI, requests, contributed, lastOutcome,
          fileExt, fileExists, formError,
          file, isProcessing, questions, error, currentQuestionIndex,
          userAnswers, selectedOption, showResult, quizCompleted, inFlight>>

reqVars == <<method, textType, apiKey>>

fetchVars == <<chunkI, requests, contributed, lastOutcome>>

fileVars == <<fileExt, fileExists, formError>>

quizVars == <<file, isProcessing, questions, error, currentQuestionIndex,
              userAnswers, selectedOption, showResult, quizCompleted, inFlight>>

envVars == <<reqVars, fetchVars, fileVars, quizVars>>

(* the quiz page as its useState calls create it (quiz.tsx 31-40) *)
QuizIdle ==
    /\ file = "null"
    /\ isProcessing = FALSE
    /\ questions = <<>>
    /\ error = ""
    /\ currentQuestionIndex = 0
    /\ userAnswers = <<>>
    /\ selectedOption = ""
    /\ showResult = FALSE
    /\ quizCompleted = FALSE
    /\ inFlight = <<>>

mapVars == <<extractedQuestions, idx, correctIndex, verified, optionsWithIndex,
             i, choices, shuffled, newCorrectIndex, processedQuestions>>

resVars == <<resStatus, resCount, resError, resQuestions>>

chunkVars == <<text, chunks, chunkStart>>

-----------------------------------------------------------------------------
(* Bounds of the model *)

MaxOptions == 4      \* longest option list of a record
MaxBatch == 2        \* most records in one parsed array
MaxChunks == 2       \* documents are up to MaxChunks * chunkSize + 1 characters long
MaxSeed == 4         \* number of different documents per length, minus one
MaxReply == 2        \* longest array one reply of the extraction service holds
MaxQuestions == 3    \* most records the replies to one invocation hold together

-----------------------------------------------------------------------------
(* JavaScript values *)

Undefined == [t |-> "undefined"]
Str(s) == [t |-> "string", v |-> s]
Num(h) == [t |-> "number", v |-> h]
Arr(a) == [t |-> "array", v |-> a]

Int2Num(k) == 2 * k
NumIsInteger(h) == h % 2 = 0

Min(a, b) == IF a < b THEN a ELSE b
Max(a, b) == IF a > b THEN a ELSE b

(* String.prototype.toLowerCase / toUpperCase on the ASCII range *)
toLowerCase(s) ==
    [k \in 1..Len(s) |-> IF s[k] \in 65..90 THEN s[k] + 32 ELSE s[k]]

toUpperCase(s) ==
    [k \in 1..Len(s) |-> IF s[k] \in 97..122 THEN s[k] - 32 ELSE s[k]]

(* \s of a regular expression, and the white space String.prototype.trim removes *)
IsSpace(c) == c \in {9, 10, 11, 12, 13, 32}

(* \w of a regular expression: [A-Za-z0-9_] *)
IsWord(c) == c \in (48..57) \cup (65..90) \cup (97..122) \cup {95}

trim(s) ==
    LET n == Len(s)
    IN  IF \A k \in 1..n : IsSpace(s[k]) THEN <<>>
        ELSE LET lo == CHOOSE k \in 1..n :
                            ~IsSpace(s[k]) /\ \A m \in 1..(k - 1) : IsSpace(s[m])
                 hi == CHOOSE k \in 1..n :
                            ~IsSpace(s[k]) /\ \A m \in (k + 1)..n : IsSpace(s[m])
             IN  SubSeq(s, lo, hi)

(* s.replace(/[^\w\s]/g, '') *)
stripNonWord(s) == SelectSeq(s, LAMBDA c : IsWord(c) \/ IsSpace(c))

(* opt.toLowerCase().trim().replace(/[^\w\s]/g, '') *)
clean(s) == stripNonWord(trim(toLowerCase(s)))

(* String.prototype.includes *)
includes(s, sub) ==
    \E k \in 0..(Len(s) - Len(sub)) :
        \A m \in 1..Len(sub) : s[k + m] = sub[m]

(* s <= u for strings: lexicographic order on code units *)
StrLeq(s, u) ==
    LET n == Min(Len(s), Len(u))
        diff == {k \in 1..n : s[k] # u[k]}
    IN  IF diff = {} THEN Len(s) <= Len(u)
        ELSE LET d == CHOOSE k \in diff : \A m \in diff : k <= m
             IN  s[d] < u[d]

(* parseInt on a string that starts with a decimal digit *)
RECURSIVE DigitsValue(_, _)
DigitsValue(s, acc) ==
    IF s = <<>> \/ ~(Head(s) \in 48..57) THEN acc
    ELSE DigitsValue(Tail(s), 10 * acc + (Head(s) - 48))

parseInt(s) == DigitsValue(s, 0)

(* Array.prototype.findLastIndex: the last index where the predicate holds *)
findLastIndex(holds) ==
    LET hits == {k \in 1..Len(holds) : holds[k]}
    IN  IF hits = {} THEN -1
        ELSE (CHOOSE k \in hits : \A m \in hits : k >= m) - 1

(* Array.prototype.findIndex, given for each element whether the predicate  *)
(* holds of it: the first 0-based index where it does, or -1                *)
findIndex(holds) ==
    LET hits == {k \in 1..Len(holds) : holds[k]}
    IN  IF hits = {} THEN -1
        ELSE (CHOOSE k \in hits : \A m \in hits : k <= m) - 1

(* The text of a document is held by its runs of equal code units: "aaab"  *)
(* is <<Run(97, 3), Run(98, 1)>>. Counts are positive and adjacent runs     *)
(* differ in their unit, so that a text has one representation.             *)
Run(c, n) == [unit |-> c, count |-> n]

(* text.length *)
length(t) ==
    LET upTo[k \in 0..Len(t)] == IF k = 0 THEN 0 ELSE upTo[k - 1] + t[k].count
    IN  upTo[Len(t)]

(* text.trim() *)
trimText(t) ==
    LET ns == {k \in 1..Len(t) : ~IsSpace(t[k].unit)}
    IN  IF ns = {} THEN <<>>
        ELSE SubSeq(t, CHOOSE k \in ns : \A m \in ns : k <= m,
                       CHOOSE k \in ns : \A m \in ns : k >= m)

(* text.slice(start, end) for 0 <= start <= end: of every run the part that *)
(* lies in [start, end)                                                      *)
slice(t, start, end) ==
    LET first(k) == length(SubSeq(t, 1, k - 1))
        part(k) == Min(end, first(k) + t[k].count) - Max(start, first(k))
        kept == {k \in 1..Len(t) : part(k) > 0}
    IN  IF kept = {} THEN <<>>
        ELSE LET lo == CHOOSE k \in kept : \A m \in kept : k <= m
             IN  [j \in 1..Cardinality(kept) |->
                    Run(t[lo + j - 1].unit, part(lo + j - 1))]

-----------------------------------------------------------------------------
(* Answer resolution: the body of the .map callback up to the call of      *)
(* shuffleOptions (summarize.ts 262-322 and, identically, 519-582)          *)

(* JavaScript truthiness of a field *)
Truthy(x) ==
    CASE x.t = "undefined" -> FALSE
      [] x.t = "string" -> x.v # <<>>
      [] x.t = "number" -> x.v # 0
      [] OTHER -> TRUE

(* the predicate handed to q.options.findIndex *)
MatchesText(opt, correctAnswer) ==
    LET cleanOpt == clean(opt)
        cleanAnswer == clean(correctAnswer)
    IN  \/ cleanOpt = cleanAnswer
        \/ includes(cleanOpt, cleanAnswer)
        \/ includes(cleanAnswer, cleanOpt)

(* the letter / upper-case letter / number matching of a short answer:     *)
(* the index it yields (-1 when none) and whether it sets verified          *)
ShortAnswerIndex(correctAnswer, optionsLength) ==
    LET answerChar == trim(toLowerCase(correctAnswer))
        upper == toUpperCase(answerChar)
        InRange(k) == k >= 0 /\ k < optionsLength
    IN  IF StrLeq(<<97>>, answerChar) /\ StrLeq(answerChar, <<122>>)
        THEN LET letterIndex == answerChar[1] - 97
             IN  IF InRange(letterIndex) THEN letterIndex ELSE -1
        ELSE IF StrLeq(<<65>>, upper) /\ StrLeq(upper, <<90>>)
        THEN LET letterIndex == upper[1] - 65
             IN  IF InRange(letterIndex) THEN letterIndex ELSE -1
        ELSE IF StrLeq(<<49>>, answerChar) /\ StrLeq(answerChar, <<52>>)
        THEN LET numberIndex == parseInt(answerChar) - 1
             IN  IF InRange(numberIndex) THEN numberIndex ELSE -1
        ELSE -1

Raised == [raises |-> TRUE]
Resolved(h, v) == [raises |-> FALSE, correctIndex |-> h, verified |-> v]

(* Fallback with the assignment verified = false left out *)
FallbackKeepsVerified(k, v) ==
    IF k = -1 THEN Resolved(Int2Num(0), v) ELSE Resolved(Int2Num(k), v)

(* "Fallback if still not found": correctIndex === -1 *)
Fallback(k, v) == IF k = -1 THEN Resolved(Int2Num(0), FALSE) ELSE Resolved(Int2Num(k), v)

(* the else-if branch "Fallback to old correctAnswer matching" *)
ResolveByAnswer(q, marked) ==
    IF q.options.t # "array" THEN Raised              \* q.options.join / findIndex of undefined
    ELSE IF q.options.v # <<>> /\ q.correctAnswer.t # "string"
    THEN Raised                                       \* correctAnswer.toLowerCase is not a function
    ELSE LET found == findIndex([k \in 1..Len(q.options.v) |->
                                    MatchesText(q.options.v[k], q.correctAnswer.v)])
         IN  IF found = -1 /\ q.correctAnswer.t = "string" /\ Len(q.correctAnswer.v) <= 2
             THEN LET k == ShortAnswerIndex(q.correctAnswer.v, Len(q.options.v))
                  IN  Fallback(k, TRUE)
             ELSE Fallback(found, marked)

(* Resolve with the two branches in the other order: correctAnswer is tried *)
(* before correctAnswerIndex                                                 *)
ResolveAnswerFirst(q) ==
    LET marked == (q.answerMarkedInDocument = "true")
        cai == q.correctAnswerIndex
    IN  IF Truthy(q.correctAnswer)
        THEN ResolveByAnswer(q, marked)
        ELSE IF cai.t = "number" /\ cai.v >= 0 /\ q.options.t # "array"
        THEN Raised
        ELSE IF cai.t = "number" /\ cai.v >= 0 /\ cai.v < Int2Num(Len(q.options.v))
        THEN Resolved(cai.v, marked)
        ELSE Fallback(-1, marked)

(* the whole resolution of one record q *)
Resolve(q) ==
    LET marked == (q.answerMarkedInDocument = "true")
        cai == q.correctAnswerIndex
    IN  IF cai.t = "number" /\ cai.v >= 0 /\ q.options.t # "array"
        THEN Raised                                   \* q.options.length of undefined
        ELSE IF cai.t = "number" /\ cai.v >= 0 /\ cai.v < Int2Num(Len(q.options.v))
        THEN Resolved(cai.v, marked)
        ELSE IF Truthy(q.correctAnswer)
        THEN ResolveByAnswer(q, marked)
        ELSE Fallback(-1, marked)

-----------------------------------------------------------------------------
(* shuffleOptions (summarize.ts 26-39) *)

(* options.map((opt, idx) => ({ option: opt, wasCorrect: idx === correctIndex })) *)
WithIndex(options, ci) ==
    [k \in 1..Len(options) |->
        [option |-> options[k], wasCorrect |-> (Int2Num(k - 1) = ci)]]

(* Swap that exchanges the option texts and leaves the wasCorrect marks in place *)
SwapOptionsOnly(a, p, r) ==
    [k \in 1..Len(a) |->
        [option |-> IF k = p + 1 THEN a[r + 1].option
                    ELSE IF k = r + 1 THEN a[p + 1].option
                    ELSE a[k].option,
         wasCorrect |-> a[k].wasCorrect]]

(* Swap that only assigns a[i] = a[j] *)
SwapOverwrite(a, p, r) ==
    [k \in 1..Len(a) |-> IF k = p + 1 THEN a[r + 1] ELSE a[k]]

(* [a[i], a[j]] = [a[j], a[i]], for 0-based i and j *)
Swap(a, p, r) ==
    [k \in 1..Len(a) |-> IF k = p + 1 THEN a[r + 1]
                         ELSE IF k = r + 1 THEN a[p + 1]
                         ELSE a[k]]

(* optionsWithIndex.map(item => item.option) *)
ShuffledOf(owi) == [k \in 1..Len(owi) |-> owi[k].option]

(* optionsWithIndex.findIndex(item => item.wasCorrect) *)
NewCorrectIndexOf(owi) == findIndex([k \in 1..Len(owi) |-> owi[k].wasCorrect])

(* shuffled[newCorrectIndex] *)
ElementAt(a, k) == IF k >= 0 /\ k < Len(a) THEN Str(a[k + 1]) ELSE Undefined

-----------------------------------------------------------------------------
(* The records the extraction service may return *)

(* option texts: "3" "4" "5" "6" "7" "8" *)
DigitOptions == <<<<51>>, <<52>>, <<53>>, <<54>>, <<55>>, <<56>>>>

(* "red" "green" "blue" "pink" "grey" "teal" *)
ColourOptions == << <<114, 101, 100>>, <<103, 114, 101, 101, 110>>,
                    <<98, 108, 117, 101>>, <<112, 105, 110, 107>>,
                    <<103, 114, 101, 121>>, <<116, 101, 97, 108>> >>

(* "yes" "no" "yes" "13" "" "no" *)
RepeatedOptions == << <<121, 101, 115>>, <<110, 111>>, <<121, 101, 115>>,
                      <<49, 51>>, <<>>, <<110, 111>> >>

OptionLists ==
    {SubSeq(base, 1, n) : base \in {DigitOptions, ColourOptions, RepeatedOptions},
                          n \in 0..MaxOptions}

OptionsValues == {Undefined} \cup {Arr(o) : o \in OptionLists}

(* correctAnswer: absent, "", "b", "B", "c", "3", "9", "e)", "yes", "Blue!", *)
(* "zebra", "n_o" and the number 2                                           *)
AnswerValues ==
    {Undefined, Str(<<>>), Str(<<98>>), Str(<<66>>), Str(<<99>>), Str(<<51>>),
     Str(<<57>>), Str(<<101, 41>>), Str(<<121, 101, 115>>),
     Str(<<66, 108, 117, 101, 33>>), Str(<<122, 101, 98, 114, 97>>),
     Str(<<110, 95, 111>>), Num(Int2Num(2))}

(* correctAnswerIndex: absent, -1, 0, 1, 1.5, one past the longest list, "1" *)
IndexValues ==
    {Undefined, Num(Int2Num(-1)), Num(Int2Num(0)), Num(Int2Num(1)), Num(3),
     Num(Int2Num(MaxOptions + 1)), Str(<<49>>)}

MarkedValues == {"true", "false", "undefined"}

Record(o, a, x, m) ==
    [question |-> <<81>>, options |-> o, correctAnswer |-> a,
     correctAnswerIndex |-> x, answerMarkedInDocument |-> m]

Records ==
    {Record(o, a, x, m) : o \in OptionsValues, a \in AnswerValues,
                          x \in IndexValues, m \in MarkedValues}

(* records of the arrays that hold more than one record *)
BatchRecords ==
    {Record(o, a, Undefined, "true") :
        o \in {Undefined, Arr(SubSeq(RepeatedOptions, 1, 2)),
               Arr(SubSeq(DigitOptions, 1, 2))},
        a \in {Undefined, Str(<<98>>), Str(<<110, 111>>),
               Str(<<122, 101, 98, 114, 97>>)}}

(* the k-th record of an array asks question "Q<k>" *)
Numbered(batch) ==
    [k \in 1..Len(batch) |-> [batch[k] EXCEPT !.question = <<81, 48 + k>>]]

Batches ==
    {<<>>} \cup {Numbered(<<r>>) : r \in Records}
           \cup UNION {{Numbered(b) : b \in [1..n -> BatchRecords]} : n \in 2..MaxBatch}

-----------------------------------------------------------------------------
(* The .map over the extracted records and the response                     *)
(* (summarize.ts 517-606 in handler, 256-335 in processLargeDocument)        *)

(* an exception that no catch answers: the invocation ends without a       *)
(* response                                                                  *)
Uncaught ==
    /\ pc' = "done"
    /\ UNCHANGED resVars

(* an exception of the map callback: caught at 600-606 in handler; on the    *)
(* chunked path it leaves processLargeDocument and is caught at 607-613      *)
CatchError ==
    /\ pc' = "done"
    /\ resStatus' = 500
    /\ resCount' = resCount + 1
    /\ resError' = IF path = "handler"
                   THEN "Failed to extract questions. Please check your document format."
                   ELSE "Failed to extract questions"
    /\ resQuestions' = <<>>

(* the callback from its first line to the entry of shuffleOptions *)
ResolveAnswer ==
    /\ pc = "map"
    /\ idx < Len(extractedQuestions)
    /\ \E q \in {extractedQuestions[idx + 1]} : \E r \in {Resolve(q)} :
           /\ ~r.raises
           /\ q.options.t = "array"
           /\ correctIndex' = r.correctIndex
           /\ verified' = r.verified
           /\ optionsWithIndex' = WithIndex(q.options.v, r.correctIndex)
           /\ i' = Len(q.options.v) - 1
    /\ choices' = <<>>
    /\ pc' = "shuffle"
    /\ UNCHANGED <<path, extractedQuestions, idx, shuffled, newCorrectIndex,
                   processedQuestions, resVars, chunkVars, envVars>>

(* the callback throws a TypeError, in the resolution or at options.map *)
ResolveRaises ==
    /\ pc = "map"
    /\ idx < Len(extractedQuestions)
    /\ LET q == extractedQuestions[idx + 1]
       IN  Resolve(q).raises \/ q.options.t # "array"
    /\ CatchError
    /\ UNCHANGED <<path, mapVars, chunkVars, envVars>>

(* the loop stops above 1: the elements at 0 and 1 are never exchanged *)
LoopRunsAboveOne(k) == k > 1

(* the condition i > 0 of the Fisher-Yates loop *)
LoopRuns(k) == k > 0

(* the values Math.floor(Math.random() * (i + 1)) can take *)
RandomIndex(k) == 0..k

(* one iteration of the Fisher-Yates loop *)
FisherYatesStep ==
    /\ pc = "shuffle"
    /\ LoopRuns(i)
    /\ \E j \in RandomIndex(i) :
        /\ optionsWithIndex' = Swap(optionsWithIndex, i, j)
        /\ choices' = Append(choices, j)
    /\ i' = i - 1
    /\ UNCHANGED <<pc, path, extractedQuestions, idx, correctIndex, verified,
                   shuffled, newCorrectIndex, processedQuestions, resVars, chunkVars, envVars>>

(* shuffleOptions returns and the callback returns the output record *)
EmitQuestion ==
    /\ pc = "shuffle"
    /\ ~LoopRuns(i)
    /\ shuffled' = ShuffledOf(optionsWithIndex)
    /\ newCorrectIndex' = NewCorrectIndexOf(optionsWithIndex)
    /\ processedQuestions' = Append(processedQuestions,
            [question |-> extractedQuestions[idx + 1].question,
             options |-> shuffled',
             correctAnswer |-> ElementAt(shuffled', newCorrectIndex'),
             originalIndex |-> idx,
             verified |-> verified])
    /\ idx' = idx + 1
    /\ pc' = "map"
    /\ UNCHANGED <<path, extractedQuestions, correctIndex, verified,
                   optionsWithIndex, i, choices, resVars, chunkVars, envVars>>

(* res.status(200).json({ questions: processedQuestions }) *)
RespondQuestions ==
    /\ pc = "map"
    /\ Len(extractedQuestions) > 0
    /\ idx = Len(extractedQuestions)
    /\ pc' = "done"
    /\ resStatus' = 200
    /\ resCount' = resCount + 1
    /\ resError' = ""
    /\ resQuestions' = processedQuestions
    /\ UNCHANGED <<path, mapVars, chunkVars, envVars>>

(* res.status(400).json({ error: 'No questions found in the document', questions: [] }) *)
RespondNoQuestions ==
    /\ pc = "map"
    /\ Len(extractedQuestions) = 0
    /\ pc' = "done"
    /\ resStatus' = 400
    /\ resCount' = resCount + 1
    /\ resError' = "No questions found in the document"
    /\ resQuestions' = <<>>
    /\ UNCHANGED <<path, mapVars, chunkVars, envVars>>

InitMap ==
    /\ QuizIdle
    /\ pc = "map"
    /\ path \in {"handler", "processLargeDocument"}
    /\ extractedQuestions \in Batches
    /\ idx = 0
    /\ correctIndex = Int2Num(-1)
    /\ verified = FALSE
    /\ optionsWithIndex = <<>>
    /\ i = 0
    /\ choices = <<>>
    /\ shuffled = <<>>
    /\ newCorrectIndex = -1
    /\ processedQuestions = <<>>
    /\ resStatus = 0
    /\ resCount = 0
    /\ resError = ""
    /\ resQuestions = <<>>
    /\ text = <<>>
    /\ chunks = <<>>
    /\ chunkStart = 0
    /\ method = "POST"
    /\ textType = "string"
    /\ apiKey = TRUE
    /\ chunkI = 0
    /\ requests = <<>>
    /\ contributed = <<>>
    /\ lastOutcome = [kind |-> "none", status |-> 0]
    /\ fileExt = "none"
    /\ fileExists = FALSE
    /\ formError = FALSE

NextMap ==
    \/ ResolveAnswer
    \/ ResolveRaises
    \/ FisherYatesStep
    \/ EmitQuestion
    \/ RespondQuestions
    \/ RespondNoQuestions

SpecMap == InitMap /\ [][NextMap]_vars

(* shuffleOptions alone: one call, entered with an option list and the      *)
(* position of its correct option                                            *)
InitShuffle ==
    /\ QuizIdle
    /\ pc = "shuffle"
    /\ path = "handler"
    /\ \E o \in OptionLists : \E c \in 0..Max(Len(o) - 1, 0) :
        /\ extractedQuestions =
                <<Record(Arr(o), Undefined, Num(Int2Num(c)), "true")>>
        /\ correctIndex = Int2Num(c)
        /\ optionsWithIndex = WithIndex(o, Int2Num(c))
        /\ i = Len(o) - 1
    /\ idx = 0
    /\ verified = TRUE
    /\ choices = <<>>
    /\ shuffled = <<>>
    /\ newCorrectIndex = -1
    /\ processedQuestions = <<>>
    /\ resStatus = 0
    /\ resCount = 0
    /\ resError = ""
    /\ resQuestions = <<>>
    /\ text = <<>>
    /\ chunks = <<>>
    /\ chunkStart = 0
    /\ method = "POST"
    /\ textType = "string"
    /\ apiKey = TRUE
    /\ chunkI = 0
    /\ requests = <<>>
    /\ contributed = <<>>
    /\ lastOutcome = [kind |-> "none", status |-> 0]
    /\ fileExt = "none"
    /\ fileExists = FALSE
    /\ formError = FALSE

NextShuffle ==
    \/ FisherYatesStep
    \/ EmitQuestion

SpecShuffle == InitShuffle /\ [][NextShuffle]_vars

-----------------------------------------------------------------------------
(* The chunking of a large document (summarize.ts 105-111) and the decision *)
(* that sends a text to processLargeDocument (summarize.ts 368-377)          *)

chunkSize == 25000

(* Math.floor(text.length / 400) *)
estimatedQuestions(t) == length(t) \div 400

(* the two numbers of the chunking decision *)
lengthThreshold == 40000
densityThreshold == 25

(* the decision without its test of estimatedQuestions *)
NeedsChunkingByLength(t) == length(t) > lengthThreshold

(* text.length > 40000 || estimatedQuestions > 25 *)
NeedsChunking(t) == length(t) > lengthThreshold \/ estimatedQuestions(t) > densityThreshold

(* the code units of the documents: "Q" "?" " " "a" and a line feed *)
DocumentUnits == <<81, 63, 32, 97, 10>>

(* a document of the given length: runs of 7000 + 1000 * seed code units,  *)
(* the last one shorter, whose units go round DocumentUnits from a place    *)
(* that depends on the seed                                                  *)
Document(len, seed) ==
    LET size == 7000 + 1000 * seed
    IN  [j \in 1..((len + size - 1) \div size) |->
            Run(DocumentUnits[((j + seed) % 5) + 1], Min(size, len - (j - 1) * size))]

DocumentLengths ==
    {1, 10399, 10400, 40000, 40001}
        \cup {n * chunkSize + d : n \in 1..MaxChunks, d \in {-1, 0, 1}}

(* the texts the handler hands to processLargeDocument *)
LargeDocuments ==
    {d \in {Document(n, seed) : n \in DocumentLengths, seed \in 0..MaxSeed} :
        NeedsChunking(d)}

(* text.slice(i, i + chunkSize) with every chunk one character short *)
ChunkOfShort(t, start) == slice(t, start, start + chunkSize - 1)

(* text.slice(i, i + 40000): chunks as long as the length the decision tests *)
ChunkOfThreshold(t, start) == slice(t, start, start + lengthThreshold)

(* text.slice(i, i + chunkSize) *)
ChunkOf(t, start) == slice(t, start, start + chunkSize)

(* i += 2 * chunkSize: every other chunk is left out *)
NextStartSkipping(start) == start + 2 * chunkSize

(* i += chunkSize *)
NextStart(start) == start + chunkSize

(* one iteration of for (let i = 0; i < text.length; i += chunkSize) *)
PushChunk ==
    /\ pc = "chunking"
    /\ chunkStart < length(text)
    /\ chunks' = Append(chunks, ChunkOf(text, chunkStart))
    /\ chunkStart' = NextStart(chunkStart)
    /\ UNCHANGED <<pc, path, text, mapVars, resVars, envVars>>

(* the loop ends *)
ChunksBuilt ==
    /\ pc = "chunking"
    /\ ~(chunkStart < length(text))
    /\ pc' = "chunked"
    /\ UNCHANGED <<path, chunkVars, mapVars, resVars, envVars>>

InitChunks ==
    /\ QuizIdle
    /\ pc = "chunking"
    /\ path = "processLargeDocument"
    /\ text \in LargeDocuments
    /\ chunks = <<>>
    /\ chunkStart = 0
    /\ extractedQuestions = <<>>
    /\ idx = 0
    /\ correctIndex = Int2Num(-1)
    /\ verified = FALSE
    /\ optionsWithIndex = <<>>
    /\ i = 0
    /\ choices = <<>>
    /\ shuffled = <<>>
    /\ newCorrectIndex = -1
    /\ processedQuestions = <<>>
    /\ resStatus = 0
    /\ resCount = 0
    /\ resError = ""
    /\ resQuestions = <<>>
    /\ method = "POST"
    /\ textType = "string"
    /\ apiKey = TRUE
    /\ chunkI = 0
    /\ requests = <<>>
    /\ contributed = <<>>
    /\ lastOutcome = [kind |-> "none", status |-> 0]
    /\ fileExt = "none"
    /\ fileExists = FALSE
    /\ formError = FALSE

NextChunks ==
    \/ PushChunk
    \/ ChunksBuilt

SpecChunks == InitChunks /\ [][NextChunks]_vars

-----------------------------------------------------------------------------
(* The handler from the request to the parsed array (summarize.ts 338-513)  *)
(* and the chunk-processing loop of processLargeDocument (117-249)          *)

(* the value of req.body.text *)
BodyText ==
    CASE textType = "string" -> Str(text)
      [] textType = "number" -> Num(10)
      [] OTHER -> Undefined

(* !text, without the test of text.trim().length *)
TextRejectedUntrimmed(t) == ~Truthy(t)

(* !text || text.trim().length === 0 *)
TextRejected(t) == ~Truthy(t) \/ (t.t = "string" /\ length(trimText(t.v)) = 0)

(* text is truthy and has no method trim: text.trim() throws a TypeError *)
TextRaises(t) == Truthy(t) /\ t.t # "string"

(* the request texts: absent, a number, "", " \n ", "Q?", and documents on  *)
(* both sides of the chunking decision                                       *)
RequestTexts ==
    {Undefined, Num(10), Str(<<>>), Str(<<Run(32, 1), Run(10, 1), Run(32, 1)>>),
     Str(<<Run(81, 1), Run(63, 1)>>)}
        \cup {Str(Document(n, 0)) :
                n \in {10399, 10400}
                        \cup {c * chunkSize + d : c \in 1..MaxChunks, d \in {0, 1}}}

(* one fetch of the extraction service: the chunk it carries, -1 when it    *)
(* carries the whole text                                                    *)
ExtractionRequest(k) == [purpose |-> "extract", chunk |-> k]

(* the HTTP statuses of a reply with response.ok false *)
ErrorStatuses == {400, 401, 429, 500, 503}

(* what a fetch can end in without yielding an array: the fetch rejects,    *)
(* the status is not 2xx, the body has no choices[0].message, the content   *)
(* does not parse, or it parses to something that is no array                *)
FailedReplies ==
    {[kind |-> "rejects", status |-> 0]}
        \cup {[kind |-> "notOk", status |-> s] : s \in ErrorStatuses}
        \cup {[kind |-> k, status |-> 200] : k \in {"invalid", "unparsable", "notArray"}}

ArrayReply == [kind |-> "array", status |-> 200]

(* "a) blood" "b) bone" *)
PrefixedOptions == << <<97, 41, 32, 98, 108, 111, 111, 100>>,
                      <<98, 41, 32, 98, 111, 110, 101>> >>

(* a record with an explicit index, marked in the document *)
IndexedRecord == Record(Arr(PrefixedOptions), Undefined, Num(2), "true")

(* a record whose answer is not marked and matches no option: "zebra" *)
UnmarkedRecord ==
    Record(Arr(SubSeq(RepeatedOptions, 1, 2)), Str(<<122, 101, 98, 114, 97>>),
           Undefined, "false")

(* a record without options *)
BareRecord == Record(Undefined, Undefined, Undefined, "undefined")

ReplyLists == {<<IndexedRecord, UnmarkedRecord, BareRecord>>,
               <<BareRecord, IndexedRecord, UnmarkedRecord>>}

(* the k-th record of the reply to chunk c asks question "Q<c><k>" *)
NumberedIn(c, batch) ==
    [k \in 1..Len(batch) |-> [batch[k] EXCEPT !.question = <<81, 48 + c, 48 + k>>]]

(* the arrays the service may return for chunk c (c = 0 for a whole text) *)
ReplyArrays(c) ==
    {NumberedIn(c, SubSeq(l, 1, n)) : l \in ReplyLists, n \in 0..MaxReply}

(* allQuestions.unshift(...extractedQuestions) *)
AccumulateFront(all, arr) == arr \o all

(* allQuestions.push(...extractedQuestions) *)
Accumulate(all, arr) == all \o arr

(* a reply other than an array makes the loop ask for the same chunk again *)
RetryChunk(k, reply) == IF reply.kind = "array" THEN k + 1 ELSE k

(* continue / the end of the loop body: i++ whatever the reply was *)
AdvanceChunk(k, reply) == k + 1

(* res.status(500) in place of res.status(response.status) *)
ServiceErrorStatusFixed(reply) == 500

(* res.status(response.status) of the single-request path *)
ServiceErrorStatus(reply) == reply.status

NoQuestionsFound == "No questions found in the document"

(* the single-request path treating a content that is no array as an empty  *)
(* array                                                                     *)
SingleFailureAsEmpty(reply) ==
    CASE reply.kind = "notOk" ->
            [status |-> ServiceErrorStatus(reply), error |-> "AI service error"]
      [] reply.kind = "invalid" ->
            [status |-> 500, error |-> "Invalid response from AI service"]
      [] reply.kind \in {"notArray", "unparsable"} ->
            [status |-> 400, error |-> NoQuestionsFound]
      [] OTHER ->
            [status |-> 500,
             error |-> "Failed to extract questions. Please check your document format."]

(* what the single-request path answers to a reply that yields no array:    *)
(* 470-481, 485-490, 508-513, and the catch at 600-606 when fetch or         *)
(* JSON.parse throws                                                         *)
SingleFailure(reply) ==
    CASE reply.kind = "notOk" ->
            [status |-> ServiceErrorStatus(reply), error |-> "AI service error"]
      [] reply.kind = "invalid" ->
            [status |-> 500, error |-> "Invalid response from AI service"]
      [] reply.kind = "notArray" ->
            [status |-> 500, error |-> "Invalid JSON structure received"]
      [] OTHER ->
            [status |-> 500,
             error |-> "Failed to extract questions. Please check your document format."]

(* the response of a return res.status(s).json({ error: e, questions: [] }) *)
RespondError(s, e) ==
    /\ pc' = "done"
    /\ resStatus' = s
    /\ resCount' = resCount + 1
    /\ resError' = e
    /\ resQuestions' = <<>>

(* if (req.method !== 'POST') *)
RejectMethod ==
    /\ pc = "start"
    /\ method # "POST"
    /\ RespondError(405, "Method not allowed")
    /\ UNCHANGED <<path, mapVars, chunkVars, envVars>>

(* if (!text || text.trim().length === 0) *)
RejectText ==
    /\ pc = "start"
    /\ method = "POST"
    /\ TextRejected(BodyText)
    /\ RespondError(400, "No text provided")
    /\ UNCHANGED <<path, mapVars, chunkVars, envVars>>

(* text.trim() throws; the outer catch responds *)
TextTrimRaises ==
    /\ pc = "start"
    /\ method = "POST"
    /\ TextRaises(BodyText)
    /\ RespondError(500, "Failed to extract questions")
    /\ UNCHANGED <<path, mapVars, chunkVars, envVars>>

(* if (!openRouterKey) *)
RejectKey ==
    /\ pc = "start"
    /\ method = "POST"
    /\ ~TextRejected(BodyText) /\ ~TextRaises(BodyText)
    /\ ~apiKey
    /\ RespondError(500,
        "API key not configured. Please add OPENROUTER_API_KEY to your Vercel environment variables.")
    /\ UNCHANGED <<path, mapVars, chunkVars, envVars>>

(* return await processLargeDocument(text, openRouterKey, res) *)
EnterProcessLargeDocument ==
    /\ pc = "start"
    /\ method = "POST"
    /\ ~TextRejected(BodyText) /\ ~TextRaises(BodyText)
    /\ apiKey
    /\ NeedsChunking(text)
    /\ path' = "processLargeDocument"
    /\ pc' = "chunking"
    /\ UNCHANGED <<mapVars, resVars, chunkVars, envVars>>

(* the fetch of the single-request path is issued *)
SendSingle ==
    /\ pc = "start"
    /\ method = "POST"
    /\ ~TextRejected(BodyText) /\ ~TextRaises(BodyText)
    /\ apiKey
    /\ ~NeedsChunking(text)
    /\ requests' = Append(requests, ExtractionRequest(-1))
    /\ pc' = "awaitSingle"
    /\ UNCHANGED <<path, mapVars, resVars, chunkVars, reqVars, fileVars, quizVars,
                   chunkI, contributed, lastOutcome>>

(* the single fetch yields no array *)
SingleFails ==
    /\ pc = "awaitSingle"
    /\ \E reply \in FailedReplies :
        /\ lastOutcome' = reply
        /\ RespondError(SingleFailure(reply).status, SingleFailure(reply).error)
    /\ contributed' = Append(contributed, -1)
    /\ UNCHANGED <<path, mapVars, chunkVars, reqVars, fileVars, quizVars, chunkI, requests>>

(* const extractedQuestions = JSON.parse(responseText) yields an array *)
SingleParsed ==
    /\ pc = "awaitSingle"
    /\ \E arr \in ReplyArrays(0) :
        /\ extractedQuestions' = arr
        /\ contributed' = Append(contributed, Len(arr))
    /\ lastOutcome' = ArrayReply
    /\ pc' = "map"
    /\ UNCHANGED <<path, idx, correctIndex, verified, optionsWithIndex, i,
                   choices, shuffled, newCorrectIndex, processedQuestions, resVars,
                   chunkVars, reqVars, fileVars, quizVars, chunkI, requests>>

(* a loop that leaves after its first iteration *)
LoopStopsEarly(k, n) == k < 1 /\ k < n

(* i < chunks.length *)
LoopGoesOn(k, n) == k < n

(* the fetch for chunks[i] is issued *)
SendChunk ==
    /\ pc = "chunked"
    /\ LoopGoesOn(chunkI, Len(chunks))
    /\ requests' = Append(requests, ExtractionRequest(chunkI))
    /\ pc' = "awaitChunk"
    /\ UNCHANGED <<path, mapVars, resVars, chunkVars, reqVars, fileVars, quizVars,
                   chunkI, contributed, lastOutcome>>

(* the reply for chunks[i] yields no array: continue at 208-215 and         *)
(* 219-222, the else at 242-244, the catch at 245-248                        *)
ChunkSkipped ==
    /\ pc = "awaitChunk"
    /\ \E reply \in FailedReplies :
        /\ lastOutcome' = reply
        /\ chunkI' = AdvanceChunk(chunkI, reply)
    /\ contributed' = Append(contributed, -1)
    /\ pc' = "chunked"
    /\ UNCHANGED <<path, mapVars, resVars, chunkVars, reqVars, fileVars, quizVars, requests>>

(* the reply for chunks[i] parses to an array: allQuestions.push(...) *)
ChunkAccumulated ==
    /\ pc = "awaitChunk"
    /\ \E arr \in ReplyArrays(chunkI + 1) :
        /\ Len(extractedQuestions) + Len(arr) <= MaxQuestions
        /\ extractedQuestions' = Accumulate(extractedQuestions, arr)
        /\ contributed' = Append(contributed, Len(arr))
    /\ lastOutcome' = ArrayReply
    /\ chunkI' = AdvanceChunk(chunkI, ArrayReply)
    /\ pc' = "chunked"
    /\ UNCHANGED <<path, idx, correctIndex, verified, optionsWithIndex, i,
                   choices, shuffled, newCorrectIndex, processedQuestions, resVars,
                   chunkVars, reqVars, fileVars, quizVars, requests>>

(* the chunk-processing loop ends *)
ChunkLoopEnds ==
    /\ pc = "chunked"
    /\ ~LoopGoesOn(chunkI, Len(chunks))
    /\ pc' = "map"
    /\ UNCHANGED <<path, mapVars, resVars, chunkVars, envVars>>

InitHandler ==
    /\ QuizIdle
    /\ pc = "start"
    /\ path = "handler"
    /\ method \in {"POST", "GET"}
    /\ apiKey \in BOOLEAN
    /\ \E t \in RequestTexts :
        /\ textType = t.t
        /\ text = IF t.t = "string" THEN t.v ELSE <<>>
    /\ chunks = <<>>
    /\ chunkStart = 0
    /\ chunkI = 0
    /\ requests = <<>>
    /\ contributed = <<>>
    /\ lastOutcome = [kind |-> "none", status |-> 0]
    /\ extractedQuestions = <<>>
    /\ idx = 0
    /\ correctIndex = Int2Num(-1)
    /\ verified = FALSE
    /\ optionsWithIndex = <<>>
    /\ i = 0
    /\ choices = <<>>
    /\ shuffled = <<>>
    /\ newCorrectIndex = -1
    /\ processedQuestions = <<>>
    /\ resStatus = 0
    /\ resCount = 0
    /\ resError = ""
    /\ resQuestions = <<>>
    /\ fileExt = "none"
    /\ fileExists = FALSE
    /\ formError = FALSE

NextHandler ==
    \/ RejectMethod
    \/ RejectText
    \/ TextTrimRaises
    \/ RejectKey
    \/ EnterProcessLargeDocument
    \/ SendSingle
    \/ SingleFails
    \/ SingleParsed
    \/ PushChunk
    \/ ChunksBuilt
    \/ SendChunk
    \/ ChunkSkipped
    \/ ChunkAccumulated
    \/ ChunkLoopEnds
    \/ ResolveAnswer
    \/ ResolveRaises
    \/ FisherYatesStep
    \/ EmitQuestion
    \/ RespondQuestions
    \/ RespondNoQuestions

SpecHandler == InitHandler /\ [][NextHandler]_vars

(* the event loop runs every continuation that is ready, and every fetch    *)
(* settles                                                                   *)
FairHandler == SpecHandler /\ WF_vars(NextHandler)

-----------------------------------------------------------------------------
(* The extract handler (extract.ts 192-266): the upload is written to a     *)
(* temporary file by parseForm, its text is extracted and returned           *)

(* path.extname(fileName).toLowerCase() of the uploads: "none" stands for a *)
(* request without a file                                                    *)
FileExtensions == {".pdf", ".docx", ".txt", ".md", ""}

(* the texts an extraction may return: "", " \n ", "Q?", "Q? A" *)
ExtractedTexts ==
    {<<>>, <<Run(32, 1), Run(10, 1), Run(32, 1)>>, <<Run(81, 1), Run(63, 1)>>,
     <<Run(81, 1), Run(63, 1), Run(32, 1), Run(65, 1)>>}

(* the extensions the switch has a case for *)
KnownExtension(ext) == ext \in {".pdf", ".docx", ".txt"}

(* the response of res.status(s).json({ error: e }) *)
ExtractRespond(s, e) ==
    /\ pc' = "done"
    /\ resStatus' = s
    /\ resCount' = resCount + 1
    /\ resError' = e

(* if (req.method !== 'POST') *)
ExtractRejectMethod ==
    /\ pc = "start"
    /\ method # "POST"
    /\ ExtractRespond(405, "Method not allowed")
    /\ UNCHANGED <<path, mapVars, resQuestions, chunkVars, envVars>>

(* parseForm rejects; the catch at 259-265 responds *)
ParseFormRejects ==
    /\ pc = "start"
    /\ method = "POST"
    /\ formError
    /\ ExtractRespond(500, "Failed to process file")
    /\ UNCHANGED <<path, mapVars, resQuestions, chunkVars, envVars>>

(* parseForm resolves: formidable has written the upload, if there is one, *)
(* to a file in the upload directory                                         *)
ParseForm ==
    /\ pc = "start"
    /\ method = "POST"
    /\ ~formError
    /\ fileExists' = (fileExt # "none")
    /\ pc' = "parsed"
    /\ UNCHANGED <<path, mapVars, resVars, chunkVars, reqVars, fetchVars,
                   fileExt, formError, quizVars>>

(* if (!file) *)
NoFileUploaded ==
    /\ pc = "parsed"
    /\ fileExt = "none"
    /\ ExtractRespond(400, "No file uploaded")
    /\ UNCHANGED <<path, mapVars, resQuestions, chunkVars, envVars>>

(* the switch: the extraction of the file's text succeeds *)
ExtractText ==
    /\ pc = "parsed"
    /\ fileExt # "none"
    /\ text' \in ExtractedTexts
    /\ pc' = "unlink"
    /\ UNCHANGED <<path, mapVars, resVars, chunks, chunkStart, envVars>>

(* the switch: readFile, pdfParse or mammoth throws. A known extension     *)
(* leaves the switch by the exception, to the catch at 259-265; the default *)
(* case returns 400 from its own catch                                       *)
ExtractTextRaises ==
    /\ pc = "parsed"
    /\ fileExt # "none"
    /\ IF KnownExtension(fileExt)
       THEN ExtractRespond(500, "Failed to process file")
       ELSE ExtractRespond(400, "Unsupported file type")
    /\ UNCHANGED <<path, mapVars, resQuestions, chunkVars, envVars>>

(* await fs.unlink(filePath).catch(console.error): the file is removed, or  *)
(* unlink fails and the error is only logged                                 *)
UnlinkFile ==
    /\ pc = "unlink"
    /\ fileExists' \in {FALSE, fileExists}
    /\ pc' = "respond"
    /\ UNCHANGED <<path, mapVars, resVars, chunkVars, reqVars, fetchVars,
                   fileExt, formError, quizVars>>

(* if (!extractedText || extractedText.trim().length === 0) *)
RespondNoText ==
    /\ pc = "respond"
    /\ TextRejected(Str(text))
    /\ ExtractRespond(400, "No text could be extracted from the document")
    /\ UNCHANGED <<path, mapVars, resQuestions, chunkVars, envVars>>

(* res.status(200).json(result) *)
RespondText ==
    /\ pc = "respond"
    /\ ~TextRejected(Str(text))
    /\ ExtractRespond(200, "")
    /\ UNCHANGED <<path, mapVars, resQuestions, chunkVars, envVars>>

InitExtract ==
    /\ QuizIdle
    /\ pc = "start"
    /\ path = "extract"
    /\ method \in {"POST", "GET"}
    /\ fileExt \in FileExtensions \cup {"none"}
    /\ fileExists = FALSE
    /\ formError \in BOOLEAN
    /\ textType = "string"
    /\ text = <<>>
    /\ apiKey = TRUE
    /\ chunks = <<>>
    /\ chunkStart = 0
    /\ chunkI = 0
    /\ requests = <<>>
    /\ contributed = <<>>
    /\ lastOutcome = [kind |-> "none", status |-> 0]
    /\ extractedQuestions = <<>>
    /\ idx = 0
    /\ correctIndex = Int2Num(-1)
    /\ verified = FALSE
    /\ optionsWithIndex = <<>>
    /\ i = 0
    /\ choices = <<>>
    /\ shuffled = <<>>
    /\ newCorrectIndex = -1
    /\ processedQuestions = <<>>
    /\ resStatus = 0
    /\ resCount = 0
    /\ resError = ""
    /\ resQuestions = <<>>

NextExtract ==
    \/ ExtractRejectMethod
    \/ ParseFormRejects
    \/ ParseForm
    \/ NoFileUploaded
    \/ ExtractText
    \/ ExtractTextRaises
    \/ UnlinkFile
    \/ RespondNoText
    \/ RespondText

SpecExtract == InitExtract /\ [][NextExtract]_vars

-----------------------------------------------------------------------------
(* Vocabulary of the properties *)

(* the record whose resolution the state shows: the one being shuffled, or  *)
(* the one emitted last                                                      *)
Resolving == pc = "shuffle"
Emitted == pc # "shuffle" /\ idx > 0
LastRecord == IF pc = "shuffle" THEN extractedQuestions[idx + 1]
              ELSE extractedQuestions[idx]

OptionCount(q) == Len(q.options.v)

(* correctAnswerIndex is an integer i with 0 <= i < number of options *)
IntegerIndexInRange(q) ==
    /\ q.options.t = "array"
    /\ q.correctAnswerIndex.t = "number"
    /\ NumIsInteger(q.correctAnswerIndex.v)
    /\ q.correctAnswerIndex.v >= 0
    /\ q.correctAnswerIndex.v < Int2Num(OptionCount(q))

(* correctAnswerIndex is a number, integer or not, that lies in range *)
NumberIndexInRange(q) ==
    /\ q.options.t = "array"
    /\ q.correctAnswerIndex.t = "number"
    /\ q.correctAnswerIndex.v >= 0
    /\ q.correctAnswerIndex.v < Int2Num(OptionCount(q))

IsLetterCode(c) == c \in (65..90) \cup (97..122)
LetterOffset(c) == IF c \in 65..90 THEN c - 65 ELSE c - 97

(* correctAnswer is the single letter at alphabet offset k < number of options *)
SingleLetterInRange(q) ==
    /\ q.options.t = "array"
    /\ q.correctAnswer.t = "string"
    /\ Len(q.correctAnswer.v) = 1
    /\ IsLetterCode(q.correctAnswer.v[1])
    /\ LetterOffset(q.correctAnswer.v[1]) < OptionCount(q)

(* correctAnswer is a single digit d in '1'..'4' with d-1 < number of options *)
SingleDigitInRange(q) ==
    /\ q.options.t = "array"
    /\ q.correctAnswer.t = "string"
    /\ Len(q.correctAnswer.v) = 1
    /\ q.correctAnswer.v[1] \in 49..52
    /\ q.correctAnswer.v[1] - 49 < OptionCount(q)

(* some option's normalized text equals, contains or is contained by the    *)
(* normalized answer text                                                    *)
SomeOptionMatches(q) ==
    \E k \in 1..OptionCount(q) : MatchesText(q.options.v[k], q.correctAnswer.v)

(* a short answer that starts with a letter or a digit 1-4 naming a position *)
NamesPosition(q) ==
    LET a == trim(toLowerCase(q.correctAnswer.v))
    IN  /\ Len(q.correctAnswer.v) <= 2
        /\ a # <<>>
        /\ \/ a[1] \in 97..122 /\ a[1] - 97 < OptionCount(q)
           \/ a[1] \in 49..52

(* the record has an option array and no answer the resolver can use *)
Unresolvable(q) ==
    /\ q.options.t = "array"
    /\ ~NumberIndexInRange(q)
    /\ \/ q.correctAnswer.t = "undefined"
       \/ /\ q.correctAnswer.t = "string"
          /\ \/ q.correctAnswer.v = <<>>
             \/ ~SomeOptionMatches(q) /\ ~NamesPosition(q)

(* the record has the types the prompt asks for: an array of option strings *)
(* and a string (or no) correctAnswer                                        *)
WellTyped(q) ==
    /\ q.options.t = "array"
    /\ q.correctAnswer.t \in {"undefined", "string"}

Count(a, x) == Cardinality({k \in 1..Len(a) : a[k] = x})

-----------------------------------------------------------------------------
(* C1: a record with no usable correctAnswerIndex whose correctAnswer is a  *)
(* single letter at alphabet offset k < number of options resolves to index *)
(* k with verified = true, whatever the option texts are.                   *)
C1_LetterResolvesToOffset ==
    Resolving =>
        LET q == LastRecord
        IN  (~NumberIndexInRange(q) /\ SingleLetterInRange(q)) =>
                /\ correctIndex = Int2Num(LetterOffset(q.correctAnswer.v[1]))
                /\ verified = TRUE

(* C2: a record with no usable correctAnswerIndex whose correctAnswer is a  *)
(* single digit d in '1'..'4' with d-1 < number of options resolves to      *)
(* index d-1 with verified = true, whatever the option texts are.           *)
C2_DigitResolvesToPosition ==
    Resolving =>
        LET q == LastRecord
        IN  (~NumberIndexInRange(q) /\ SingleDigitInRange(q)) =>
                /\ correctIndex = Int2Num(q.correctAnswer.v[1] - 49)
                /\ verified = TRUE

(* C3: a record whose correctAnswerIndex is an integer i in range resolves  *)
(* to index i with verified = (answerMarkedInDocument === true), whatever   *)
(* correctAnswer it also carries; the question is emitted with that option  *)
(* as its correctAnswer and with that verified flag.                        *)
C3_ExplicitIndexWins ==
    /\ Resolving =>
          LET q == LastRecord
          IN  IntegerIndexInRange(q) =>
                  /\ correctIndex = q.correctAnswerIndex.v
                  /\ verified = (q.answerMarkedInDocument = "true")
    /\ \A k \in 1..Len(processedQuestions) :
          LET q == extractedQuestions[k]
          IN  IntegerIndexInRange(q) =>
                  /\ processedQuestions[k].verified = (q.answerMarkedInDocument = "true")
                  /\ processedQuestions[k].correctAnswer =
                         Str(q.options.v[(q.correctAnswerIndex.v \div 2) + 1])

(* C3 witness: an explicit index has been resolved for a record whose       *)
(* correctAnswer text matches another option first                          *)
C3_Witness ==
    /\ Resolving
    /\ IntegerIndexInRange(LastRecord)
    /\ LastRecord.correctAnswer.t = "string"
    /\ LastRecord.correctAnswer.v # <<>>
    /\ MatchesText(LastRecord.options.v[1], LastRecord.correctAnswer.v)
    /\ correctIndex = Int2Num(1)
    /\ LastRecord.answerMarkedInDocument = "false"

(* C4: a record whose answer matches no option and names no position (or    *)
(* that carries no answer) is resolved to index 0 with verified = false,    *)
(* and answer resolution drops no record: every non-empty array of records  *)
(* is answered with one question per record, in order.                      *)
C4_FallbackKeepsQuestion ==
    /\ (Resolving /\ Unresolvable(LastRecord)) =>
            correctIndex = Int2Num(0) /\ verified = FALSE
    /\ (pc = "done" /\ Len(extractedQuestions) > 0) =>
            /\ Len(resQuestions) = Len(extractedQuestions)
            /\ \A k \in 1..Len(extractedQuestions) :
                  LET q == extractedQuestions[k]
                  IN  /\ resQuestions[k].question = q.question
                      /\ Unresolvable(q) =>
                            /\ resQuestions[k].verified = FALSE
                            /\ OptionCount(q) > 0 =>
                                  resQuestions[k].correctAnswer = Str(q.options.v[1])

(* a response holding two questions, the first of a record whose answer,    *)
(* marked in the document, matched nothing                                   *)
C4_Witness ==
    /\ pc = "done"
    /\ resStatus = 200
    /\ Len(resQuestions) = 2
    /\ Unresolvable(extractedQuestions[1])
    /\ Truthy(extractedQuestions[1].correctAnswer)
    /\ extractedQuestions[1].answerMarkedInDocument = "true"
    /\ ~Unresolvable(extractedQuestions[2])

(* C5: for every record the resolver processes the resolved correctIndex is *)
(* a valid position in options, and the correctAnswer emitted for every     *)
(* question is one of that question's emitted options.                      *)
C5_IndexIsValidPosition ==
    /\ Resolving =>
            /\ NumIsInteger(correctIndex)
            /\ correctIndex >= 0
            /\ correctIndex < Int2Num(OptionCount(LastRecord))
    /\ \A k \in 1..Len(processedQuestions) :
            \E m \in 1..Len(processedQuestions[k].options) :
                processedQuestions[k].correctAnswer = Str(processedQuestions[k].options[m])

(* C6: answer resolution never raises: every array of parsed records,       *)
(* whatever the presence or type of their fields, is answered with one      *)
(* resolved question per record and never with an error response.           *)
C6_ResolutionNeverRaises ==
    (pc = "done" /\ Len(extractedQuestions) > 0) =>
        /\ resStatus = 200
        /\ Len(resQuestions) = Len(extractedQuestions)

(* C7: for every option list, every correctIndex in range and every         *)
(* sequence of random choices, shuffled[newCorrectIndex] is the option that *)
(* was at options[correctIndex].                                             *)
C7_CorrectOptionTracked ==
    (Emitted /\ IntegerIndexInRange([LastRecord EXCEPT !.correctAnswerIndex = Num(correctIndex)])) =>
        /\ newCorrectIndex >= 0
        /\ newCorrectIndex < Len(shuffled)
        /\ shuffled[newCorrectIndex + 1] = LastRecord.options.v[(correctIndex \div 2) + 1]

(* C7 witness: the correct option of a four-option record has moved *)
C7_Witness ==
    /\ Emitted
    /\ Len(shuffled) = 4
    /\ NumIsInteger(correctIndex)
    /\ newCorrectIndex # correctIndex \div 2
    /\ shuffled[newCorrectIndex + 1] = LastRecord.options.v[(correctIndex \div 2) + 1]
    /\ shuffled[(correctIndex \div 2) + 1] # LastRecord.options.v[(correctIndex \div 2) + 1]

(* C8: the multiset of option strings shuffleOptions returns equals the     *)
(* multiset of the input option strings, and an input of length 1 is        *)
(* returned unchanged.                                                       *)
C8_MultisetPreserved ==
    Emitted =>
        LET options == LastRecord.options.v
        IN  /\ Len(shuffled) = Len(options)
            /\ \A k \in 1..Len(options) : Count(shuffled, options[k]) = Count(options, options[k])
            /\ Len(options) = 1 => shuffled = options

(* C8 witness: a list with a repeated text came back in another order *)
C8_Witness ==
    /\ Emitted
    /\ Len(shuffled) = 3
    /\ shuffled # LastRecord.options.v
    /\ Count(shuffled, shuffled[2]) = 2

(* C9 as stated: after shuffling exactly one option in the result equals    *)
(* the original correct option's text.                                       *)
C9_ExactlyOneEqualsCorrect ==
    (Emitted /\ IntegerIndexInRange([LastRecord EXCEPT !.correctAnswerIndex = Num(correctIndex)])) =>
        Count(shuffled, LastRecord.options.v[(correctIndex \div 2) + 1]) = 1

(* C9 amended: after shuffling, the result holds the original correct       *)
(* option's text as many times as the input did, which is at least once and *)
(* exactly once when the option texts are pairwise distinct.                 *)
C9_AsManyAsBefore ==
    (Emitted /\ IntegerIndexInRange([LastRecord EXCEPT !.correctAnswerIndex = Num(correctIndex)])) =>
        LET options == LastRecord.options.v
            correct == options[(correctIndex \div 2) + 1]
        IN  /\ Count(shuffled, correct) = Count(options, correct)
            /\ Count(shuffled, correct) >= 1
            /\ (\A k, m \in 1..Len(options) : options[k] = options[m] => k = m) =>
                    Count(shuffled, correct) = 1

(* C9 witness: the correct option's text occurs twice after the shuffle *)
C9_Witness ==
    /\ Emitted
    /\ NumIsInteger(correctIndex)
    /\ Len(shuffled) >= 3
    /\ newCorrectIndex >= 0
    /\ Count(shuffled, shuffled[newCorrectIndex + 1]) = 2
    /\ shuffled # LastRecord.options.v

RECURSIVE Concat(_)
Concat(ss) == IF ss = <<>> THEN <<>> ELSE Head(ss) \o Concat(Tail(ss))

(* the text a followed by the text b: the last run of a and the first of b  *)
(* become one run when they have the same unit                               *)
JoinTwo(a, b) ==
    IF a = <<>> THEN b
    ELSE IF b = <<>> THEN a
    ELSE IF a[Len(a)].unit = b[1].unit
         THEN SubSeq(a, 1, Len(a) - 1)
                \o <<Run(b[1].unit, a[Len(a)].count + b[1].count)>> \o Tail(b)
         ELSE a \o b

(* the texts of a sequence one after the other *)
RECURSIVE JoinTexts(_)
JoinTexts(ss) == IF ss = <<>> THEN <<>> ELSE JoinTwo(Head(ss), JoinTexts(Tail(ss)))

(* C10: the chunks built by processLargeDocument, concatenated in chunk     *)
(* order, reproduce the text exactly, and no chunk is empty: while the loop *)
(* runs they reproduce the text up to the loop variable, and when it ends   *)
(* the whole text.                                                           *)
C10_ChunksReproduceText ==
    /\ \A k \in 1..Len(chunks) : length(chunks[k]) > 0
    /\ pc = "chunking" => JoinTexts(chunks) = slice(text, 0, Min(chunkStart, length(text)))
    /\ pc = "chunked" => JoinTexts(chunks) = text

(* C10 witness: a text one character longer than two chunks has been split  *)
(* into three chunks, the last of one character                              *)
C10_Witness ==
    /\ pc = "chunked"
    /\ Len(chunks) = 3
    /\ length(chunks[3]) = 1
    /\ length(text) = 2 * chunkSize + 1

-----------------------------------------------------------------------------
(* Vocabulary of the properties of the handler *)

(* the invocation has responded *)
Responded == pc = "done"

(* the replies consumed so far, and the records the c-th of them added *)
Consumed == Len(contributed)
Added(c) == IF contributed[c] < 0 THEN 0 ELSE contributed[c]

(* the questions "Q<c>1" .. "Q<c>n" of the c-th reply; the only reply of    *)
(* the single-request path is numbered 0                                     *)
ReplyLabel(c) == IF path = "handler" THEN 0 ELSE c
QuestionsAdded(c) == [k \in 1..Added(c) |-> <<81, 48 + ReplyLabel(c), 48 + k>>]

(* the questions of all consumed replies, reply after reply *)
QuestionsReceived == Concat([c \in 1..Consumed |-> QuestionsAdded(c)])

(* C11: a response that carries questions numbers them 0, 1, ..., k-1 in    *)
(* originalIndex, in response order, and carries the records of the replies *)
(* in chunk order, each reply's records in the order the service gave them, *)
(* whichever chunks yielded nothing.                                         *)
C11_IndexedInChunkOrder ==
    (Responded /\ resStatus = 200) =>
        /\ Len(resQuestions) >= 1
        /\ \A k \in 1..Len(resQuestions) : resQuestions[k].originalIndex = k - 1
        /\ [k \in 1..Len(resQuestions) |-> resQuestions[k].question] = QuestionsReceived

(* C11 witness: a three-chunk document answered 200 whose first chunk gave  *)
(* two records, whose second chunk failed and whose third gave one           *)
C11_Witness ==
    /\ Responded /\ resStatus = 200
    /\ path = "processLargeDocument"
    /\ contributed = <<2, -1, 1>>
    /\ Len(resQuestions) = 3

(* C12: the chunked path answers with a failure (a 4xx status, an error and *)
(* no questions) exactly when no reply added a record; otherwise it answers *)
(* 200 with every accumulated question, however many chunks failed.          *)
C12_FailureIffNothingContributed ==
    (Responded /\ path = "processLargeDocument") =>
        IF \A c \in 1..Consumed : Added(c) = 0
        THEN resStatus \in 400..499 /\ resError # "" /\ resQuestions = <<>>
        ELSE /\ resStatus = 200
             /\ [k \in 1..Len(resQuestions) |-> resQuestions[k].question]
                    = QuestionsReceived

(* C13: the chunked path issues exactly one extraction request per chunk,   *)
(* in chunk order, whatever the earlier replies were: the k-th request is   *)
(* for chunk k, no chunk is asked for twice, and once the loop is over every *)
(* chunk has been asked for.                                                 *)
C13_OneRequestPerChunk ==
    path = "processLargeDocument" =>
        /\ Len(requests) <= Len(chunks)
        /\ \A k \in 1..Len(requests) : requests[k] = ExtractionRequest(k - 1)
        /\ pc \in {"map", "shuffle", "done"} => Len(requests) = Len(chunks)

(* C13 witness: three chunks were asked for although the first two replies  *)
(* were failures                                                             *)
C13_Witness ==
    /\ Responded
    /\ path = "processLargeDocument"
    /\ Len(chunks) = 3
    /\ Len(requests) = 3
    /\ contributed = <<-1, -1, 1>>

(* C14 as claimed: on the single-request path a reply with a non-success    *)
(* status is answered with a 5xx status, an error and no questions.          *)
C14_ServiceErrorIsServerError ==
    (Responded /\ path = "handler" /\ lastOutcome.kind = "notOk") =>
        /\ resStatus \in 500..599
        /\ resError # ""
        /\ resQuestions = <<>>

(* C14 corrected: on the single-request path a reply with a non-success     *)
(* status is answered with that same status, an error and no questions.     *)
C14_ServiceStatusPassedOn ==
    (Responded /\ path = "handler" /\ lastOutcome.kind = "notOk") =>
        /\ resStatus = lastOutcome.status
        /\ resError = "AI service error"
        /\ resQuestions = <<>>

(* C14 witness: the service answered 401 and so did the handler *)
C14_Witness ==
    /\ Responded
    /\ path = "handler"
    /\ lastOutcome = [kind |-> "notOk", status |-> 401]
    /\ resStatus = 401
    /\ requests = <<ExtractionRequest(-1)>>

(* a reply whose content does not parse or parses to something that is no   *)
(* array                                                                     *)
Unusable(reply) == reply.kind \in {"unparsable", "notArray"}

(* C15 as claimed: an unusable reply is never fatal; when it is the reply   *)
(* for the only segment of a document the invocation ends as it does for a  *)
(* reply with zero questions, in the no-questions-found failure.             *)
C15_UnusableReplyIsNotFatal ==
    (Responded /\ Len(requests) = 1 /\ Unusable(lastOutcome)) =>
        /\ resStatus = 400
        /\ resError = NoQuestionsFound
        /\ resQuestions = <<>>

(* C15 corrected: on the chunked path an unusable reply adds no record and  *)
(* the loop goes on to the next chunk, so that a one-chunk document ends in *)
(* the no-questions-found failure and the others in the aggregate of the    *)
(* remaining replies; on the single-request path it is fatal: the handler   *)
(* answers 500 with an error and no questions.                               *)
C15_UnusableReplySkipsChunkOnly ==
    /\ (path = "processLargeDocument" /\ Unusable(lastOutcome)) =>
            /\ contributed[Consumed] = -1
            /\ [k \in 1..Len(extractedQuestions) |-> extractedQuestions[k].question]
                    = QuestionsReceived
            /\ pc = "chunked" => (chunkI = Consumed /\ resStatus = 0)
            /\ (Responded /\ Len(chunks) = 1) =>
                    /\ resStatus = 400
                    /\ resError = NoQuestionsFound
                    /\ resQuestions = <<>>
            /\ (Responded /\ resStatus = 200) =>
                    [k \in 1..Len(resQuestions) |-> resQuestions[k].question]
                        = QuestionsReceived
    /\ (Responded /\ path = "handler" /\ Unusable(lastOutcome)) =>
            /\ resStatus = 500
            /\ resError = IF lastOutcome.kind = "notArray"
                          THEN "Invalid JSON structure received"
                          ELSE "Failed to extract questions. Please check your document format."
            /\ resQuestions = <<>>

(* C15 witness: the single-request path answered 500 to a content that did  *)
(* not parse                                                                 *)
C15_Witness ==
    /\ Responded
    /\ path = "handler"
    /\ lastOutcome.kind = "unparsable"
    /\ resStatus = 500

(* the chunked path answered 200 with the records of the first two chunks   *)
(* after the content of the third did not parse                              *)
C15_ChunkedWitness ==
    /\ Responded
    /\ path = "processLargeDocument"
    /\ contributed = <<1, 1, -1>>
    /\ lastOutcome.kind = "unparsable"
    /\ resStatus = 200

(* the request text is missing, empty or made of white space only *)
BlankText ==
    \/ textType = "undefined"
    \/ textType = "string" /\ \A k \in 1..Len(text) : IsSpace(text[k].unit)

(* C16: a POST whose text is missing, empty or white space only is answered *)
(* 400 with an error and no questions, and no extraction request is issued  *)
(* for it, whether or not the API key is configured.                         *)
C16_BlankTextRejected ==
    (method = "POST" /\ BlankText) =>
        /\ requests = <<>>
        /\ pc \in {"start", "done"}
        /\ Responded =>
              /\ resStatus = 400
              /\ resError = "No text provided"
              /\ resQuestions = <<>>

(* C16 witness: a text of white space was answered 400 without an API key *)
C16_Witness ==
    /\ Responded
    /\ method = "POST"
    /\ textType = "string"
    /\ text = <<Run(32, 1), Run(10, 1), Run(32, 1)>>
    /\ ~apiKey
    /\ resStatus = 400
    /\ requests = <<>>

(* the text starts with an enumerator: a letter or digit followed by ")" or *)
(* ".", or a bullet "-", "*" or U+2022 followed by a space                   *)
HasEnumeratorPrefix(o) ==
    /\ Len(o) >= 2
    /\ \/ (IsLetterCode(o[1]) \/ o[1] \in 48..57) /\ o[2] \in {41, 46}
       \/ o[1] \in {45, 42, 8226} /\ o[2] = 32

(* C17: every option of the response has had its leading enumerator prefix  *)
(* removed: no emitted option starts with one, and an option the service    *)
(* returned as "a) blood" is emitted as "blood".                             *)
C17_OptionPrefixesRemoved ==
    \A k \in 1..Len(resQuestions) :
        \A m \in 1..Len(resQuestions[k].options) :
            ~HasEnumeratorPrefix(resQuestions[k].options[m])

(* the record's answer is not marked in the document, or matches no option *)
NeedsVerification(q) == q.answerMarkedInDocument # "true" \/ Unresolvable(q)

(* C18: for every question whose answer is not marked or cannot be matched, *)
(* a verification request has been issued to the service before the         *)
(* question is emitted in a response.                                        *)
C18_UnmarkedAnswersVerified ==
    (Responded /\ resStatus = 200) =>
        \A k \in 1..Len(resQuestions) :
            NeedsVerification(extractedQuestions[k]) =>
                \E r \in 1..Len(requests) : requests[r].purpose = "verifyAnswer"

(* the records added by the first n replies *)
AddedUpTo(n) == Len(Concat([c \in 1..n |-> QuestionsAdded(c)]))

(* C20 as claimed: when the request for chunk n+1 is issued, the reply for  *)
(* chunk n has been consumed by recovery, resolution and shuffling: its     *)
(* records are among the processed questions.                                *)
C20_ProcessedBeforeNextRequest ==
    path = "processLargeDocument" =>
        \A n \in 1..(Len(requests) - 1) :
            /\ Consumed >= n
            /\ Len(processedQuestions) >= AddedUpTo(n)

(* C20 corrected: when the request for chunk n+1 is issued, the reply for   *)
(* chunk n has been parsed and its records appended to the accumulator;     *)
(* resolution and shuffling start only after the reply for the last chunk   *)
(* has been consumed.                                                        *)
C20_AccumulatedBeforeNextRequest ==
    path = "processLargeDocument" =>
        /\ Consumed <= Len(requests)
        /\ Len(requests) <= Consumed + 1
        /\ pc = "awaitChunk" <=> Len(requests) = Consumed + 1
        /\ [k \in 1..Len(extractedQuestions) |-> extractedQuestions[k].question]
                = QuestionsReceived
        /\ (pc = "shuffle" \/ Len(processedQuestions) > 0) =>
                /\ Len(requests) = Len(chunks)
                /\ Consumed = Len(chunks)

(* C20 witness: the request for the second chunk is under way, the two      *)
(* records of the first reply are accumulated and none is processed          *)
C20_Witness ==
    /\ pc = "awaitChunk"
    /\ Len(requests) = 2
    /\ contributed = <<2>>
    /\ Len(extractedQuestions) = 2
    /\ processedQuestions = <<>>

(* C19: uploaded documents are not stored: once the extract handler has     *)
(* responded, on the success path and on every error path, the temporary    *)
(* file written for the upload has been deleted.                             *)
C19_TempFileDeleted ==
    (Responded /\ path = "extract") => ~fileExists

(* the chunked path has been entered and the single-request path has not *)
Chunked == path = "processLargeDocument"

(* the request has passed the checks of method, text and key *)
Accepted ==
    /\ method = "POST"
    /\ textType = "string"
    /\ ~BlankText
    /\ apiKey

(* C21 as claimed: every chunk but the last is as long as the length the    *)
(* chunking decision compares the text with, and a text is chunked exactly  *)
(* when it is longer than that length or its estimated number of questions  *)
(* exceeds the density threshold.                                            *)
C21_SegmentSizeIsLengthThreshold ==
    /\ \A k \in 1..(Len(chunks) - 1) : length(chunks[k]) = lengthThreshold
    /\ (Accepted /\ pc # "start") =>
            (Chunked <=> (length(text) > lengthThreshold
                            \/ length(text) \div 400 > densityThreshold))

(* C21 corrected: every chunk but the last has chunkSize = 25000 code       *)
(* units, which is another number than the 40000 the decision compares the  *)
(* length with; a text is chunked exactly when it is longer than 40000 or   *)
(* its estimated number of questions exceeds 25, and otherwise the one      *)
(* request of the single-request path carries the whole text.               *)
C21_SegmentSizeIsChunkSize ==
    /\ chunkSize # lengthThreshold
    /\ \A k \in 1..(Len(chunks) - 1) : length(chunks[k]) = chunkSize
    /\ (Accepted /\ pc # "start") =>
            /\ Chunked <=> (length(text) > lengthThreshold
                              \/ length(text) \div 400 > densityThreshold)
            /\ ~Chunked => (chunks = <<>> /\ requests = <<ExtractionRequest(-1)>>)

(* C21 witness: a text of 25001 code units, not longer than 40000, has been *)
(* cut into a chunk of 25000 and a chunk of one                              *)
C21_Witness ==
    /\ Chunked
    /\ pc = "chunked"
    /\ length(text) = chunkSize + 1
    /\ Len(chunks) = 2
    /\ length(chunks[1]) = chunkSize
    /\ length(chunks[2]) = 1

(* the least integer not below a / b, for b > 0 *)
CeilDiv(a, b) == (a + b - 1) \div b

(* C22: when a text is chunked, there are ceil(length / chunkSize) chunks,  *)
(* every chunk but the last has exactly chunkSize code units, the last has  *)
(* between 1 and chunkSize, and once the chunk loop has ended as many        *)
(* extraction requests have been made.                                       *)
C22_SegmentCountIsCeiling ==
    (Chunked /\ pc # "chunking") =>
        /\ Len(chunks) = CeilDiv(length(text), chunkSize)
        /\ \A k \in 1..(Len(chunks) - 1) : length(chunks[k]) = chunkSize
        /\ Len(chunks) >= 1
        /\ length(chunks[Len(chunks)]) \in 1..chunkSize
        /\ pc \in {"map", "shuffle", "done"} =>
                Len(requests) = CeilDiv(length(text), chunkSize)

(* C22 witness: a text of 50000 code units, an exact multiple of chunkSize, *)
(* was cut into two full chunks and answered after two requests              *)
C22_Witness ==
    /\ Responded
    /\ Chunked
    /\ length(text) = 2 * chunkSize
    /\ Len(chunks) = 2
    /\ length(chunks[2]) = chunkSize
    /\ Len(requests) = 2

(* the record is resolved through its answer text: it has an option array,  *)
(* no correctAnswerIndex in range and a non-empty correctAnswer string       *)
ResolvedThroughAnswer(q) ==
    /\ q.options.t = "array"
    /\ ~NumberIndexInRange(q)
    /\ q.correctAnswer.t = "string"
    /\ q.correctAnswer.v # <<>>

IsAlphanumeric(c) == c \in (48..57) \cup (65..90) \cup (97..122)

(* a text lower-cased and stripped of every code unit that is neither       *)
(* alphanumeric nor a space                                                  *)
NormalizedAsClaimed(s) ==
    SelectSeq(toLowerCase(s), LAMBDA c : IsAlphanumeric(c) \/ IsSpace(c))

(* a text lower-cased, stripped of the white space around it and then of    *)
(* every code unit that is not a letter, a digit, an underscore or white    *)
(* space                                                                     *)
Normalized(s) ==
    SelectSeq(trim(toLowerCase(s)),
              LAMBDA c : IsAlphanumeric(c) \/ c = 95 \/ IsSpace(c))

(* one text equals, contains or is contained by the other *)
Overlap(a, b) == a = b \/ includes(a, b) \/ includes(b, a)

(* the option positions (from 0) whose text matches the answer text *)
MatchingAsClaimed(q) ==
    {k \in 0..(OptionCount(q) - 1) :
        Overlap(NormalizedAsClaimed(q.options.v[k + 1]),
                NormalizedAsClaimed(q.correctAnswer.v))}
Matching(q) ==
    {k \in 0..(OptionCount(q) - 1) :
        Overlap(Normalized(q.options.v[k + 1]), Normalized(q.correctAnswer.v))}

Least(S) == CHOOSE k \in S : \A m \in S : k <= m

(* C23 as claimed: a record resolved through its answer text, some option   *)
(* of which matches the answer once both are lower-cased and stripped of    *)
(* their non-alphanumeric, non-space characters, resolves to the first such *)
(* option with verified = (answerMarkedInDocument === true), also when the  *)
(* answer is a letter or a digit.                                            *)
C23_FirstMatchOfAlphanumerics ==
    Resolving =>
        LET q == LastRecord
        IN  (ResolvedThroughAnswer(q) /\ MatchingAsClaimed(q) # {}) =>
                /\ correctIndex = Int2Num(Least(MatchingAsClaimed(q)))
                /\ verified = (q.answerMarkedInDocument = "true")

(* C23 corrected: the same with the normalization the code applies, which   *)
(* trims the text and keeps its underscores: the record resolves to the     *)
(* first matching option with verified = (answerMarkedInDocument === true), *)
(* also when the answer is a letter or a digit naming another position.     *)
C23_FirstMatchOfWordCharacters ==
    Resolving =>
        LET q == LastRecord
        IN  (ResolvedThroughAnswer(q) /\ Matching(q) # {}) =>
                /\ correctIndex = Int2Num(Least(Matching(q)))
                /\ verified = (q.answerMarkedInDocument = "true")

(* C23 witness: the answer "yes", not marked in the document, matches the   *)
(* first and the third option and is resolved to the first                   *)
C23_Witness ==
    /\ Resolving
    /\ ResolvedThroughAnswer(LastRecord)
    /\ LastRecord.correctAnswer.v = <<121, 101, 115>>
    /\ Matching(LastRecord) = {0, 2}
    /\ correctIndex = Int2Num(0)
    /\ LastRecord.answerMarkedInDocument = "false"
    /\ verified = FALSE

(* the sequences of values of j a shuffle of n elements can draw: one for   *)
(* each i from n-1 down to 1, the one for i in 0..i                          *)
ChoiceSequences(n) ==
    IF n <= 1 THEN {<<>>}
    ELSE {js \in [1..(n - 1) -> 0..(n - 1)] : \A m \in 1..(n - 1) : js[m] <= n - m}

(* the positions 0 .. n-1 in order *)
Positions(n) == [k \in 1..n |-> k - 1]

(* where the loop puts the elements of a when it draws js: a is exchanged   *)
(* at (n-1, js[1]), then at (n-2, js[2]), ... and last at (1, js[n-1])       *)
RECURSIVE ShuffleWith(_, _)
ShuffleWith(a, js) ==
    IF js = <<>> THEN a
    ELSE ShuffleWith(Swap(a, Len(js), Head(js)), Tail(js))

(* the arrangements of the positions 0 .. n-1 *)
Arrangements(n) ==
    {p \in [1..n -> 0..(n - 1)] : \A k, m \in 1..n : p[k] = p[m] => k = m}

RECURSIVE Factorial(_)
Factorial(n) == IF n <= 1 THEN 1 ELSE n * Factorial(n - 1)

(* C24: the shuffle of a list of n options draws one j in 0..i for each i   *)
(* from n-1 down to 1; the option each position ends with is the one the    *)
(* drawn sequence puts there; no other sequence of draws gives the same     *)
(* arrangement; and the n! sequences give the n! arrangements of the        *)
(* positions and nothing else.                                               *)
C24_ChoicesOntoPermutations ==
    Emitted =>
        LET options == LastRecord.options.v
            n == Len(options)
            made == ShuffleWith(Positions(n), choices)
            all == ChoiceSequences(n)
        IN  /\ choices \in all
            /\ shuffled = [k \in 1..n |-> options[made[k] + 1]]
            /\ \A js \in all : ShuffleWith(Positions(n), js) = made => js = choices
            /\ {ShuffleWith(Positions(n), js) : js \in all} = Arrangements(n)
            /\ Cardinality(all) = Factorial(n)
            /\ Cardinality(Arrangements(n)) = Factorial(n)

(* C24 witness: the draws 0, 0, 0 have turned four options into the second, *)
(* the third, the fourth and the first                                       *)
C24_Witness ==
    /\ Emitted
    /\ Len(shuffled) = 4
    /\ choices = <<0, 0, 0>>
    /\ shuffled = <<LastRecord.options.v[2], LastRecord.options.v[3],
                    LastRecord.options.v[4], LastRecord.options.v[1]>>
    /\ shuffled[1] # shuffled[4]

(* C25: every invocation of the summarize handler ends, and ends having     *)
(* called res.status(..).json(..) exactly once: no response is sent twice,  *)
(* and the invocation has ended exactly when one response has been sent.    *)
C25_ExactlyOneResponse ==
    /\ [](resCount <= 1)
    /\ [](pc = "done" <=> resCount = 1)
    /\ <>(pc = "done")

(* C25 witness: on the chunked path the map callback threw after a reply    *)
(* had been accumulated, and the handler's outer catch sent the one response *)
C25_Witness ==
    /\ pc = "done"
    /\ Chunked
    /\ Len(extractedQuestions) > 0
    /\ Len(processedQuestions) < Len(extractedQuestions)
    /\ resCount = 1
    /\ resStatus = 500
    /\ resError = "Failed to extract questions"

(* C26: an accepted request takes the chunked path exactly when its text    *)
(* has at least 10400 code units; a text longer than 40000 always has an    *)
(* estimate above 25; a chunked text of 10400 .. 25000 code units is one    *)
(* chunk, the whole text; and the single request carries a text of at most  *)
(* 10399 code units.                                                         *)
C26_ChunkedFrom10400 ==
    /\ (Accepted /\ pc # "start") => (Chunked <=> length(text) >= 10400)
    /\ length(text) > 40000 => length(text) \div 400 > 25
    /\ length(text) \div 400 > 25 <=> length(text) >= 10400
    /\ (Chunked /\ pc # "chunking" /\ length(text) \in 10400..25000) =>
            chunks = <<text>>
    /\ \A k \in 1..Len(requests) :
            requests[k] = ExtractionRequest(-1) => length(text) <= 10399

(* C26 witness: a text of 10400 code units went through processLargeDocument *)
(* as one chunk and one request                                              *)
C26_Witness ==
    /\ Responded
    /\ Chunked
    /\ length(text) = 10400
    /\ chunks = <<text>>
    /\ requests = <<ExtractionRequest(0)>>

(* a text of 10399 code units was sent in the single request *)
C26_SingleWitness ==
    /\ Responded
    /\ ~Chunked
    /\ length(text) = 10399
    /\ requests = <<ExtractionRequest(-1)>>

-----------------------------------------------------------------------------
(* The quiz page (quiz.tsx). One action is one event handler, or one        *)
(* continuation of handleGenerateQuiz after an await, together with the     *)
(* render that follows it; its guard says that the element the handler is   *)
(* bound to is rendered and enabled.                                         *)

(* the number of runs of handleGenerateQuiz the model lets wait at a time *)
MaxInFlight == 2

(* files a user may choose or drop: two of an accepted type and one whose   *)
(* type and name handleFileSelection rejects                                 *)
AcceptedFiles == {"notes.pdf", "essay.docx"}
RejectedFiles == {"photo.png"}

(* !validTypes.includes(selectedFile.type) && !selectedFile.name.match(..) *)
FileRejected(f) == f \in RejectedFiles

(* the questions a quiz may hold: one with the options "yes" and "no", one  *)
(* with an option whose text is empty                                        *)
QuestionPool ==
    {[question |-> "Q", options |-> <<"yes", "no">>, correctAnswer |-> "yes"],
     [question |-> "Q", options |-> <<"", "no">>, correctAnswer |-> "no"]}

(* the non-empty questions arrays /api/summarize may answer with *)
LoadedQuizzes == UNION {[1..n -> QuestionPool] : n \in 1..MaxQuestions}

(* the messages the catch of handleGenerateQuiz may set *)
ExtractErrors == {"Failed to extract text from document", "Failed to fetch"}
SummarizeErrors == {"Failed to extract questions"}
NoQuestionsError ==
    "No questions found in the document. Make sure the document contains multiple-choice questions."

(* questions.length === 0 && !quizCompleted: the upload panel is rendered *)
UploadPanelShown == questions = <<>> /\ ~quizCompleted

(* questions.length > 0 && !quizCompleted && currentQuestion *)
QuestionShown ==
    /\ questions # <<>>
    /\ ~quizCompleted
    /\ currentQuestionIndex < Len(questions)

(* questions[currentQuestionIndex] *)
currentQuestion == questions[currentQuestionIndex + 1]

(* the Generate and Cancel buttons are never disabled *)
ButtonNeverDisabled(processing) == FALSE

(* disabled={isProcessing} *)
ButtonDisabled(processing) == processing

(* the Check Answer button is there whether or not the result is shown *)
SubmitEnabledAlways(shown, selected) == selected # ""

(* the Check Answer button is rendered when !showResult and is disabled     *)
(* when !selectedOption                                                      *)
SubmitEnabled(shown, selected) == ~shown /\ selected # ""

(* currentQuestionIndex < questions.length *)
HasNextQuestionOffByOne(k, n) == k < n

(* currentQuestionIndex < questions.length - 1 *)
HasNextQuestion(k, n) == k < n - 1

(* handleFileSelection *)
handleFileSelection(f) ==
    IF FileRejected(f)
    THEN /\ error' = "Please upload a PDF, DOCX, or TXT file"
         /\ UNCHANGED <<file, questions, userAnswers, quizCompleted>>
    ELSE /\ file' = f
         /\ error' = ""
         /\ questions' = <<>>
         /\ userAnswers' = <<>>
         /\ quizCompleted' = FALSE

quizRest == <<pc, path, mapVars, resVars, chunkVars, reqVars, fetchVars, fileVars>>

(* handleDrop: the drop zone is part of the upload panel *)
DropFile ==
    /\ UploadPanelShown
    /\ \E f \in AcceptedFiles \cup RejectedFiles : handleFileSelection(f)
    /\ UNCHANGED <<isProcessing, currentQuestionIndex, selectedOption, showResult,
                   inFlight, quizRest>>

(* handleFileChange: the label of the file input is rendered when !file *)
ChooseFile ==
    /\ UploadPanelShown
    /\ file = "null"
    /\ \E f \in AcceptedFiles \cup RejectedFiles : handleFileSelection(f)
    /\ UNCHANGED <<isProcessing, currentQuestionIndex, selectedOption, showResult,
                   inFlight, quizRest>>

(* handleGenerateQuiz up to its first await: the fetch of /api/extract *)
GenerateQuiz ==
    /\ UploadPanelShown
    /\ file # "null"
    /\ ~ButtonDisabled(isProcessing)
    /\ Len(inFlight) < MaxInFlight
    /\ isProcessing' = TRUE
    /\ error' = ""
    /\ questions' = <<>>
    /\ userAnswers' = <<>>
    /\ quizCompleted' = FALSE
    /\ inFlight' = Append(inFlight, "extract")
    /\ UNCHANGED <<file, currentQuestionIndex, selectedOption, showResult, quizRest>>

(* the sequence s without its k-th element *)
Without(s, k) == SubSeq(s, 1, k - 1) \o SubSeq(s, k + 1, Len(s))

(* catch and finally of handleGenerateQuiz, for the run at position k *)
GenerateFails(k, message) ==
    /\ error' = message
    /\ isProcessing' = FALSE
    /\ inFlight' = Without(inFlight, k)
    /\ UNCHANGED <<file, questions, currentQuestionIndex, userAnswers,
                   selectedOption, showResult, quizCompleted, quizRest>>

(* the fetch of /api/extract rejects, or its response is not ok *)
ExtractFetchFails ==
    \E k \in 1..Len(inFlight) :
        /\ inFlight[k] = "extract"
        /\ \E message \in ExtractErrors : GenerateFails(k, message)

(* /api/extract answers with the text: the fetch of /api/summarize is issued *)
ExtractFetchSucceeds ==
    \E k \in 1..Len(inFlight) :
        /\ inFlight[k] = "extract"
        /\ inFlight' = [inFlight EXCEPT ![k] = "summarize"]
        /\ UNCHANGED <<file, isProcessing, questions, error, currentQuestionIndex,
                       userAnswers, selectedOption, showResult, quizCompleted,
                       quizRest>>

(* the fetch of /api/summarize rejects, or its response is not ok *)
SummarizeFetchFails ==
    \E k \in 1..Len(inFlight) :
        /\ inFlight[k] = "summarize"
        /\ \E message \in SummarizeErrors : GenerateFails(k, message)

(* the response holds no questions *)
NoQuestionsCameBack ==
    \E k \in 1..Len(inFlight) :
        /\ inFlight[k] = "summarize"
        /\ GenerateFails(k, NoQuestionsError)

(* the quiz is loaded *)
QuizLoaded ==
    \E k \in 1..Len(inFlight) :
        /\ inFlight[k] = "summarize"
        /\ questions' \in LoadedQuizzes
        /\ currentQuestionIndex' = 0
        /\ selectedOption' = ""
        /\ showResult' = FALSE
        /\ isProcessing' = FALSE
        /\ inFlight' = Without(inFlight, k)
        /\ UNCHANGED <<file, error, userAnswers, quizCompleted, quizRest>>

(* handleAnswerSelect: the option buttons are disabled when showResult *)
AnswerSelect ==
    /\ QuestionShown
    /\ ~showResult
    /\ \E k \in 1..Len(currentQuestion.options) :
            selectedOption' = currentQuestion.options[k]
    /\ UNCHANGED <<file, isProcessing, questions, error, currentQuestionIndex,
                   userAnswers, showResult, quizCompleted, inFlight, quizRest>>

(* handleSubmitAnswer *)
SubmitAnswer ==
    /\ QuestionShown
    /\ SubmitEnabled(showResult, selectedOption)
    /\ userAnswers' = Append(userAnswers,
            [questionIndex |-> currentQuestionIndex,
             selectedAnswer |-> selectedOption,
             isCorrect |-> (selectedOption = currentQuestion.correctAnswer)])
    /\ showResult' = TRUE
    /\ UNCHANGED <<file, isProcessing, questions, error, currentQuestionIndex,
                   selectedOption, quizCompleted, inFlight, quizRest>>

(* handleNextQuestion: the button is rendered when showResult *)
NextQuestion ==
    /\ QuestionShown
    /\ showResult
    /\ IF HasNextQuestion(currentQuestionIndex, Len(questions))
       THEN /\ currentQuestionIndex' = currentQuestionIndex + 1
            /\ selectedOption' = ""
            /\ showResult' = FALSE
            /\ UNCHANGED quizCompleted
       ELSE /\ quizCompleted' = TRUE
            /\ UNCHANGED <<currentQuestionIndex, selectedOption, showResult>>
    /\ UNCHANGED <<file, isProcessing, questions, error, userAnswers, inFlight,
                   quizRest>>

(* handleRestartQuiz: Retake Quiz on the completion panel *)
RestartQuiz ==
    /\ quizCompleted
    /\ currentQuestionIndex' = 0
    /\ userAnswers' = <<>>
    /\ selectedOption' = ""
    /\ showResult' = FALSE
    /\ quizCompleted' = FALSE
    /\ UNCHANGED <<file, isProcessing, questions, error, inFlight, quizRest>>

(* handleReset *)
handleReset ==
    /\ file' = "null"
    /\ questions' = <<>>
    /\ error' = ""
    /\ userAnswers' = <<>>
    /\ currentQuestionIndex' = 0
    /\ selectedOption' = ""
    /\ showResult' = FALSE
    /\ quizCompleted' = FALSE
    /\ UNCHANGED <<isProcessing, inFlight, quizRest>>

(* Cancel on the upload panel *)
CancelUpload ==
    /\ UploadPanelShown
    /\ file # "null"
    /\ ~ButtonDisabled(isProcessing)
    /\ handleReset

(* New Quiz on the completion panel *)
NewQuiz ==
    /\ quizCompleted
    /\ handleReset

InitQuiz ==
    /\ QuizIdle
    /\ pc = "page"
    /\ path = "quiz"
    /\ extractedQuestions = <<>>
    /\ idx = 0
    /\ correctIndex = Int2Num(-1)
    /\ verified = FALSE
    /\ optionsWithIndex = <<>>
    /\ i = 0
    /\ choices = <<>>
    /\ shuffled = <<>>
    /\ newCorrectIndex = -1
    /\ processedQuestions = <<>>
    /\ resStatus = 0
    /\ resCount = 0
    /\ resError = ""
    /\ resQuestions = <<>>
    /\ text = <<>>
    /\ chunks = <<>>
    /\ chunkStart = 0
    /\ method = "POST"
    /\ textType = "string"
    /\ apiKey = TRUE
    /\ chunkI = 0
    /\ requests = <<>>
    /\ contributed = <<>>
    /\ lastOutcome = [kind |-> "none", status |-> 0]
    /\ fileExt = "none"
    /\ fileExists = FALSE
    /\ formError = FALSE

(* the continuations of handleGenerateQuiz: a fetch settles *)
FetchSettles ==
    \/ ExtractFetchFails
    \/ ExtractFetchSucceeds
    \/ SummarizeFetchFails
    \/ NoQuestionsCameBack
    \/ QuizLoaded

(* what the user may do *)
UserActs ==
    \/ DropFile
    \/ ChooseFile
    \/ GenerateQuiz
    \/ CancelUpload
    \/ AnswerSelect
    \/ SubmitAnswer
    \/ NextQuestion
    \/ RestartQuiz
    \/ NewQuiz

NextQuiz == UserActs \/ FetchSettles

SpecQuiz == InitQuiz /\ [][NextQuiz]_vars

(* every fetch settles; the user is free to do nothing *)
FairQuiz == SpecQuiz /\ WF_vars(FetchSettles)

(* the recorded answers that are about question k (from 0) *)
AnswersTo(k) == {m \in 1..Len(userAnswers) : userAnswers[m].questionIndex = k}

(* C27: on the quiz page the number of recorded answers is                  *)
(* currentQuestionIndex, plus one when showResult is true; the k-th record  *)
(* is about question k; and when quizCompleted is true every question has   *)
(* exactly one recorded answer.                                              *)
C27_AnswersFollowProgress ==
    /\ Len(userAnswers) = currentQuestionIndex + (IF showResult THEN 1 ELSE 0)
    /\ \A m \in 1..Len(userAnswers) : userAnswers[m].questionIndex = m - 1
    /\ quizCompleted =>
            /\ questions # <<>>
            /\ \A k \in 0..(Len(questions) - 1) : Cardinality(AnswersTo(k)) = 1

(* C27 witness: a quiz of three questions has been completed and taken      *)
(* again up to the result of its second question                             *)
C27_Witness ==
    /\ Len(questions) = 3
    /\ ~quizCompleted
    /\ currentQuestionIndex = 1
    /\ showResult
    /\ Len(userAnswers) = 2
    /\ userAnswers[2].isCorrect
    /\ ~userAnswers[1].isCorrect

(* C27 witness of its last part: a completed quiz of three questions *)
C27_CompletedWitness ==
    /\ quizCompleted
    /\ Len(questions) = 3
    /\ Len(userAnswers) = 3

(* C28: whenever the quiz page holds questions, currentQuestionIndex is a   *)
(* position of one of them, and handleNextQuestion on the last question     *)
(* sets quizCompleted and leaves the index where it is.                      *)
C28_IndexWithinQuiz ==
    /\ [](questions # <<>> =>
            (0 <= currentQuestionIndex /\ currentQuestionIndex < Len(questions)))
    /\ [][(NextQuestion /\ currentQuestionIndex = Len(questions) - 1) =>
            (quizCompleted' /\ currentQuestionIndex' = currentQuestionIndex)]_vars

(* C28 witness: Finish Quiz was pressed on the last of three questions *)
C28_Witness ==
    /\ quizCompleted
    /\ Len(questions) = 3
    /\ currentQuestionIndex = 2
    /\ showResult

(* C29: on the quiz page, questions non-empty implies that error is the     *)
(* empty string.                                                             *)
C29_NoErrorBesideQuiz == questions # <<>> => error = ""

(* C30: at most one run of handleGenerateQuiz waits for a fetch,            *)
(* isProcessing is true exactly while one does, and whenever isProcessing   *)
(* is true it is false again later.                                          *)
C30_ProcessingEnds ==
    /\ [](Len(inFlight) <= 1)
    /\ [](isProcessing <=> inFlight # <<>>)
    /\ (isProcessing ~> ~isProcessing)

(* C30 witness: a run ended with no questions, and isProcessing is false    *)
(* again                                                                     *)
C30_Witness ==
    /\ ~isProcessing
    /\ inFlight = <<>>
    /\ error = NoQuestionsError
    /\ file # "null"

=============================================================================
